---- MODULE Spec2Model ----
(***************************************************************************)
(* The event-sourced case ledger (data/cases.jsonl) with its two writers   *)
(* (case_store.append_record, memory.append_case) and its readers          *)
(* (case_store.load_records / case_exists / get_case_state and             *)
(* memory.load_cases).                                                     *)
(*                                                                         *)
(* The ledger is a sequence of lines.  A Python call either returns a      *)
(* value, Ok(v), or raises, Raise(e).                                      *)
(***************************************************************************)
EXTENDS Integers, Sequences, FiniteSets, TLC

VARIABLES ledger, ret

vars == <<ledger, ret>>

\* Longest ledger explored (lines of the file).
MaxLedger == 3

(***************************************************************************)
(* Python / JSON values, tagged by type.  A string carries its text        *)
(* without surrounding whitespace (s) and whether whitespace surrounds it  *)
(* (ws); a string that datetime.fromisoformat accepts also carries what it *)
(* denotes (iso): local time t, whether an offset is written (tz) and the  *)
(* offset (off).                                                           *)
(***************************************************************************)
None == [ty |-> "none"]

Str(s) == [ty |-> "str", s |-> s, ws |-> FALSE]

Padded(s) == [ty |-> "str", s |-> s, ws |-> TRUE]

IsoStr(t, tz, off) ==
    [ty |-> "str", s |-> "timestamp", ws |-> FALSE,
     iso |-> [t |-> t, tz |-> tz, off |-> off]]

Num(n) == [ty |-> "num", n |-> n]

Dict(d) == [ty |-> "dict", d |-> d]

List(l) == [ty |-> "list", l |-> l]

EmptyDict == << >>

\* Python truthiness (`not dt`, `x or default`).
Truthy(v) ==
    CASE v.ty = "none" -> FALSE
      [] v.ty = "str" -> v.s # "" \/ v.ws
      [] v.ty = "num" -> v.n # 0
      [] v.ty = "dict" -> DOMAIN v.d # {}
      [] v.ty = "list" -> v.l # << >>
      [] OTHER -> TRUE

\* dict.get(k): the value, or None when the key is missing.
Get(d, k) == IF k \in DOMAIN d THEN d[k] ELSE None

\* str.strip()
Strip(v) == [v EXCEPT !.ws = FALSE]

Ok(v) == [tag |-> "ok", val |-> v]

Raise(e) == [tag |-> "raise", exc |-> e]

(***************************************************************************)
(* Lines of the file.  json: the text json.dumps writes for a value;       *)
(* text: decodable text that is no JSON document (garbage, a truncated     *)
(* write); blank: only whitespace; badutf8: bytes that are not UTF-8.      *)
(* Every line ends with its terminator, but for a last line marked torn:   *)
(* what a write that was cut short left behind.                            *)
(***************************************************************************)
JsonLine(v) == [kind |-> "json", val |-> v]

TextLine == [kind |-> "text"]

BlankLine == [kind |-> "blank"]

BadUtf8Line == [kind |-> "badutf8"]

\* The same text without its "\n".
Torn(line) ==
    [k \in DOMAIN line \cup {"torn"} |-> IF k = "torn" THEN TRUE ELSE line[k]]

IsTorn(line) == "torn" \in DOMAIN line

\* The file ends in the middle of a line.
EndsTorn(lines) == lines # << >> /\ IsTorn(lines[Len(lines)])

\* The text of a torn line followed by more text: bytes that are not UTF-8
\* stay so, and everything else is text json.loads rejects (an unfinished
\* document followed by "{", or a finished one followed by extra data).
Joined(line, more) ==
    IF line.kind = "badutf8" \/ more.kind = "badutf8"
    THEN BadUtf8Line
    ELSE TextLine

json_dumps(obj) == JsonLine(Dict(obj))

json_loads(line) ==
    IF line.kind = "json" THEN Ok(line.val) ELSE Raise("JSONDecodeError")

\* `line.strip()` is empty
IsBlank(line) == line.kind = "blank"

\* Decoding the file as UTF-8 fails
DecodeFails(lines) == \E i \in 1..Len(lines) : lines[i].kind = "badutf8"

(***************************************************************************)
(* case_store.py                                                           *)
(***************************************************************************)
READ_ONLY_EVENTS == {"status_check"}

\* The lines the scan of load_records keeps: not blank, and json.loads
\* does not raise.
KeptLine(line) == ~IsBlank(line) /\ json_loads(line).tag = "ok"

load_records(lines) ==
    IF DecodeFails(lines)
    THEN Raise("UnicodeDecodeError")
    ELSE LET kept == SelectSeq(lines, KeptLine)
         IN  Ok([i \in 1..Len(kept) |-> json_loads(kept[i]).val])

\* datetime.min: naive, before every other datetime.
DatetimeMin == [ty |-> "datetime", t |-> 0, tz |-> FALSE, off |-> 0]

_parse_iso(dt) ==
    IF ~Truthy(dt) \/ dt.ty # "str"
    THEN None
    ELSE IF "iso" \in DOMAIN dt
         THEN [ty |-> "datetime", t |-> dt.iso.t, tz |-> dt.iso.tz,
               off |-> dt.iso.off]
         ELSE None

_event_type(rec) ==
    LET et == Get(rec, "event_type")
    IN  IF et.ty = "str" /\ Truthy(Strip(et))
        THEN Strip(et).s
        ELSE IF "routing" \in DOMAIN rec /\ "entities" \in DOMAIN rec
                /\ ("request_text" \in DOMAIN rec \/ "summary" \in DOMAIN rec)
             THEN "case_created"
             ELSE "unknown"

\* The key list.sort orders by: the parsed created_at, or datetime.min.
SortKey(rec) ==
    LET p == _parse_iso(Get(rec, "created_at"))
    IN  IF p.ty = "none" THEN DatetimeMin ELSE p

\* The instant a datetime denotes: an aware one is compared in UTC.
Instant(d) == d.t - d.off

\* a < b of two datetimes raises TypeError when one is naive and one aware.
Comparable(a, b) == a.tz = b.tz

\* One step of a stable insertion: r goes after every element whose key is
\* not greater than its own.
InsertByKey(sorted, r) ==
    LET k == Cardinality({i \in 1..Len(sorted) :
                 Instant(SortKey(sorted[i])) <= Instant(SortKey(r))})
    IN  SubSeq(sorted, 1, k) \o <<r>> \o SubSeq(sorted, k + 1, Len(sorted))

RECURSIVE StableSort(_)
StableSort(recs) ==
    IF recs = << >>
    THEN << >>
    ELSE InsertByKey(StableSort(SubSeq(recs, 1, Len(recs) - 1)),
                     recs[Len(recs)])

\* A sort that is left out: the records stay in file order.
list_sort_file_order(recs) ==
    IF \E i, j \in 1..Len(recs) : ~Comparable(SortKey(recs[i]), SortKey(recs[j]))
    THEN Raise("TypeError")
    ELSE Ok(recs)

\* records.sort(key=...): stable; raises as soon as the list holds a naive
\* and an aware key (every list of two or more elements is compared).
list_sort(recs) ==
    IF \E i, j \in 1..Len(recs) : ~Comparable(SortKey(recs[i]), SortKey(recs[j]))
    THEN Raise("TypeError")
    ELSE Ok(StableSort(recs))

_records_for_case(lines, case_id) ==
    LET loaded == load_records(lines)
    IN  IF loaded.tag = "raise"
        THEN loaded
        ELSE IF \E i \in 1..Len(loaded.val) : loaded.val[i].ty # "dict"
             THEN Raise("AttributeError")
             ELSE LET dicts == [i \in 1..Len(loaded.val) |-> loaded.val[i].d]
                      mine(r) == Get(r, "case_id") = case_id
                  IN  list_sort(SelectSeq(dicts, mine))

case_exists(lines, case_id) ==
    LET recs == _records_for_case(lines, case_id)
    IN  IF recs.tag = "raise"
        THEN recs
        ELSE Ok(\E i \in 1..Len(recs.val) :
                   _event_type(recs.val[i]) = "case_created")

\* `x or {}` then dict(...), `x or []` then list(...)
DictOrEmpty(v) == IF Truthy(v) THEN v.d ELSE EmptyDict

ListOrEmpty(v) == IF Truthy(v) THEN v.l ELSE << >>

\* The state a case_created record (re)initialises.
CreatedState(rec) ==
    [case_id |-> Get(rec, "case_id"),
     case_type |-> Get(rec, "case_type"),
     created_at |-> Get(rec, "created_at"),
     priority |-> Get(rec, "priority"),
     sla_days |-> Get(rec, "sla_days"),
     routing |-> Get(rec, "routing"),
     entities |-> Dict(DictOrEmpty(Get(rec, "entities"))),
     missing_info |-> List(ListOrEmpty(Get(rec, "missing_info"))),
     last_updated_at |-> Get(rec, "created_at"),
     last_event_type |-> Str("case_created")]

\* A merge that lets null overwrite: entities.update(updates)
MergeUpdatesWithNull(entities, updates) ==
    [k \in DOMAIN entities \cup DOMAIN updates |->
        IF k \in DOMAIN updates THEN updates[k] ELSE entities[k]]

\* for k, v in updates.items(): if v is not None: entities[k] = v
MergeUpdates(entities, updates) ==
    LET set == {k \in DOMAIN updates : updates[k] # None}
    IN  [k \in DOMAIN entities \cup set |->
            IF k \in set THEN updates[k] ELSE entities[k]]

\* A follow_up that adds its list to the old one instead of replacing it.
MissingAfterUnion(missing, rec) ==
    IF "missing_info_after" \in DOMAIN rec
    THEN List(missing.l \o SelectSeq(ListOrEmpty(rec["missing_info_after"]),
                               LAMBDA x : \A i \in 1..Len(missing.l) : missing.l[i] # x))
    ELSE missing

\* The missing_info a follow_up leaves.
MissingAfter(missing, rec) ==
    IF "missing_info_after" \in DOMAIN rec
    THEN List(ListOrEmpty(rec["missing_info_after"]))
    ELSE missing

FollowUpState(state, rec) ==
    [state EXCEPT
        !["entities"] = Dict(MergeUpdates(state["entities"].d,
                                DictOrEmpty(Get(rec, "entities_update")))),
        !["missing_info"] = MissingAfter(state["missing_info"], rec),
        !["last_updated_at"] = Get(rec, "created_at"),
        !["last_event_type"] = Str("follow_up")]

\* A replay loop in which a status_check met after creation sets the
\* last-updated fields.
ReplayStepStatusTouches(acc, rec) ==
    LET et == _event_type(rec)
    IN  IF et \in READ_ONLY_EVENTS /\ acc.saw_create
        THEN [acc EXCEPT !.state["last_updated_at"] = Get(rec, "created_at"),
                         !.state["last_event_type"] = Str(et)]
        ELSE IF et \in READ_ONLY_EVENTS \/ et = "unknown"
        THEN acc
        ELSE IF et = "case_created"
        THEN [state |-> CreatedState(rec), saw_create |-> TRUE]
        ELSE IF et = "follow_up" /\ ~acc.saw_create
        THEN acc
        ELSE IF et = "follow_up"
        THEN [acc EXCEPT !.state = FollowUpState(acc.state, rec)]
        ELSE acc

\* One iteration of the replay loop of get_case_state.
ReplayStep(acc, rec) ==
    LET et == _event_type(rec)
    IN  IF et \in READ_ONLY_EVENTS \/ et = "unknown"
        THEN acc
        ELSE IF et = "case_created"
        THEN [state |-> CreatedState(rec), saw_create |-> TRUE]
        ELSE IF et = "follow_up" /\ ~acc.saw_create
        THEN acc
        ELSE IF et = "follow_up"
        THEN [acc EXCEPT !.state = FollowUpState(acc.state, rec)]
        ELSE acc

RECURSIVE Replay(_, _)
Replay(acc, recs) ==
    IF recs = << >>
    THEN acc
    ELSE Replay(ReplayStep(acc, Head(recs)), Tail(recs))

get_case_state(lines, case_id) ==
    LET recs == _records_for_case(lines, case_id)
    IN  IF recs.tag = "raise"
        THEN recs
        ELSE IF recs.val = << >>
        THEN Ok(None)
        ELSE LET end == Replay([state |-> EmptyDict, saw_create |-> FALSE],
                               recs.val)
             IN  Ok(IF DOMAIN end.state = {} THEN None ELSE Dict(end.state))

(***************************************************************************)
(* memory.py                                                               *)
(***************************************************************************)
\* path.read_text(...).splitlines() inside try/except: no lines at all when
\* the file does not decode.
_safe_read_lines(lines) == IF DecodeFails(lines) THEN << >> ELSE lines

\* A line load_cases keeps: not blank, parses, and parses to an object.
KeptCase(line) ==
    ~IsBlank(line) /\ json_loads(line).tag = "ok"
    /\ json_loads(line).val.ty = "dict"

load_cases(lines) ==
    LET kept == SelectSeq(_safe_read_lines(lines), KeptCase)
    IN  Ok([i \in 1..Len(kept) |-> json_loads(kept[i]).val])

\* append_case writes only a dict whose case_id is a non-blank string.
AcceptsPacket(packet) ==
    Get(packet, "case_id").ty = "str" /\ Truthy(Strip(Get(packet, "case_id")))

(***************************************************************************)
(* The records and lines explored.  Case ids, timestamps and payloads are  *)
(* small, and chosen so that histories hold ties, both kinds of ISO        *)
(* timestamp, missing timestamps, null updates, legacy records and         *)
(* damaged lines.                                                          *)
(***************************************************************************)
CaseA == Str("CASE-A")

CaseB == Str("CASE-B")

CaseIds == {CaseA, CaseB}

Route == Dict([queue |-> Str("service-desk")])

\* case_created at naive time 2
Created1 ==
    [case_id |-> CaseA, event_type |-> Str("case_created"),
     created_at |-> IsoStr(2, FALSE, 0), case_type |-> Str("access"),
     priority |-> Str("high"), sla_days |-> Num(2), routing |-> Route,
     request_text |-> Str("text"),
     entities |-> Dict([a |-> Str("1"), b |-> None]),
     missing_info |-> List(<<Str("x"), Str("y")>>)]

\* follow_up at naive time 3, with a null update and a replacement list
FollowUp1 ==
    [case_id |-> CaseA, event_type |-> Str("follow_up"),
     created_at |-> IsoStr(3, FALSE, 0),
     entities_update |-> Dict([a |-> None, b |-> Str("2"), c |-> Str("3")]),
     missing_info_after |-> List(<<Str("y")>>)]

\* follow_up at naive time 4, without a replacement list
FollowUpLate ==
    [case_id |-> CaseA, event_type |-> Str("follow_up"),
     created_at |-> IsoStr(4, FALSE, 0),
     entities_update |-> Dict([c |-> Str("7")])]

\* follow_up with no created_at and no replacement list; its event_type is
\* written with surrounding whitespace
FollowUpUndated ==
    [case_id |-> CaseA, event_type |-> Padded("follow_up"),
     entities_update |-> Dict([a |-> Str("9")])]

\* a record written before event_type existed, with an unparsable created_at
Legacy ==
    [case_id |-> CaseA, created_at |-> Str("yesterday"), routing |-> Route,
     summary |-> Str("sum"), entities |-> Dict([a |-> Str("4")])]

\* status_check at naive time 3, shaped as build_case_packet writes it
StatusCheck ==
    [case_id |-> CaseA, event_type |-> Str("status_check"),
     created_at |-> IsoStr(3, FALSE, 0), summary |-> Str("sum"),
     case_type |-> Str("access"), routing |-> Route]

\* case_created at 04:00+02:00, the instant 2
Created2 ==
    [case_id |-> CaseA, event_type |-> Str("case_created"),
     created_at |-> IsoStr(4, TRUE, 2), case_type |-> Str("general"),
     priority |-> Str("low"), sla_days |-> Num(5), routing |-> Route,
     request_text |-> Str("text"),
     entities |-> Dict([c |-> Str("5")]),
     missing_info |-> List(<<Str("z")>>)]

\* follow_up at 03:00+00:00, the instant 3, with an empty replacement list
FollowUpAware ==
    [case_id |-> CaseA, event_type |-> Str("follow_up"),
     created_at |-> IsoStr(3, TRUE, 0),
     entities_update |-> Dict([b |-> Str("8"), d |-> None]),
     missing_info_after |-> List(<< >>)]

\* case_created of the other case
CreatedB ==
    [case_id |-> CaseB, event_type |-> Str("case_created"),
     created_at |-> IsoStr(1, FALSE, 0), case_type |-> Str("general"),
     routing |-> Route, request_text |-> Str("text"),
     entities |-> Dict([a |-> Str("6")]), missing_info |-> List(<< >>)]

\* a packet without case_id
NoCaseId ==
    [event_type |-> Str("follow_up"), created_at |-> IsoStr(3, FALSE, 0),
     entities_update |-> Dict([a |-> Str("0")])]

Records ==
    {Created1, FollowUp1, FollowUpLate, FollowUpUndated, Legacy, StatusCheck,
     Created2, FollowUpAware, CreatedB}

Packets == Records \cup {NoCaseId}

\* a line holding a JSON document that is no object
NonObjectLine == JsonLine(List(<<Num(1)>>))

\* The lines explored (a blank line is skipped as a garbage line is, and is
\* left out).
Lines ==
    {json_dumps(r) : r \in Packets}
        \cup {TextLine, BadUtf8Line, NonObjectLine}

\* A line that holds a JSON object, and the object it holds.
IsObject(line) == line.kind = "json" /\ line.val.ty = "dict"

RecordAt(lines, i) == lines[i].val.d

RECURSIVE SeqsUpTo(_, _)
SeqsUpTo(S, n) ==
    IF n = 0
    THEN {<< >>}
    ELSE LET shorter == SeqsUpTo(S, n - 1)
         IN  shorter \cup {Append(q, x) : q \in shorter, x \in S}

(***************************************************************************)
(* The state machine: the file, and the last call with its outcome.  An    *)
(* empty ledger is the state in which data/cases.jsonl does not exist yet: *)
(* every write leaves a line in it.                                        *)
(***************************************************************************)
\* Whether the file can be opened when a read asks for it.
IO == {"ok", "denied"}

\* DATA_PATH.exists()
Exists(lines) == lines # << >>

\* load_records on a file that may not open: [] when there is no file, and
\* the error of DATA_PATH.open("r") when it is refused.
load_records_from(lines, io) ==
    IF ~Exists(lines)
    THEN Ok(<< >>)
    ELSE IF io = "denied"
         THEN Raise("PermissionError")
         ELSE load_records(lines)

\* load_cases on a file that may not open: _safe_read_lines answers [] when
\* there is no file and when read_text raises.
load_cases_from(lines, io) ==
    IF ~Exists(lines) \/ io = "denied"
    THEN load_cases(<< >>)
    ELSE load_cases(lines)

\* A write that opens the file afresh, open("w"), and loses what it held.
WriteLineTruncating(lines, line) == <<line>>

\* open("a") ... f.write(line + "\n"): the text lands at the end of the
\* file, on the last line when that one has no terminator yet.
WriteLine(lines, line) ==
    IF EndsTorn(lines)
    THEN [lines EXCEPT ![Len(lines)] = Joined(lines[Len(lines)], line)]
    ELSE Append(lines, line)

\* The same write when only a part of its text reaches the file.
WriteTorn(lines, piece) ==
    IF EndsTorn(lines)
    THEN [lines EXCEPT ![Len(lines)] = Torn(Joined(lines[Len(lines)], piece))]
    ELSE Append(lines, piece)

\* A read that opens the file for writing, open("w+"), and empties it.
AfterReadTruncating(lines) == << >>

\* The file after a read: open("r") writes nothing.
AfterRead(lines) == lines

Called(op, arg, out) == [op |-> op, arg |-> arg, out |-> out, io |-> "ok"]

\* A call made while the file is in condition io.
Under(io, call) == [call EXCEPT !.io = io]

\* No call has been made yet.
NoCall == Called("none", None, Ok(None))

\* The file may hold any content when the program starts.
Init ==
    /\ ledger \in SeqsUpTo(Lines, MaxLedger)
    /\ ret = NoCall

\* case_store.append_record: no check of the record
append_record(lines, record) == WriteLine(lines, json_dumps(record))

\* memory.append_case: returns without writing unless case_id is a
\* non-blank string
append_case(lines, case_packet) ==
    IF AcceptsPacket(case_packet)
    THEN WriteLine(lines, json_dumps(case_packet))
    ELSE lines

AppendRecord(record) ==
    /\ Len(ledger) < MaxLedger
    /\ ledger' = append_record(ledger, record)
    /\ ret' = Called("append_record", Dict(record), Ok(None))

AppendCase(case_packet) ==
    /\ Len(ledger) < MaxLedger
    /\ ledger' = append_case(ledger, case_packet)
    /\ ret' = Called("append_case", Dict(case_packet), Ok(None))

LoadRecords ==
    \E io \in IO :
        /\ ret' = Under(io, Called("load_records", None,
                                   load_records_from(ledger, io)))
        /\ ledger' = AfterRead(ledger)

LoadCases ==
    \E io \in IO :
        /\ ret' = Under(io, Called("load_cases", None,
                                   load_cases_from(ledger, io)))
        /\ ledger' = AfterRead(ledger)

CaseExists(case_id) ==
    /\ ret' = Called("case_exists", case_id, case_exists(ledger, case_id))
    /\ ledger' = AfterRead(ledger)

GetCaseState(case_id) ==
    /\ ret' = Called("get_case_state", case_id, get_case_state(ledger, case_id))
    /\ ledger' = AfterRead(ledger)

Next ==
    \/ \E record \in Packets : AppendRecord(record)
    \/ \E case_packet \in Packets : AppendCase(case_packet)
    \/ LoadRecords
    \/ LoadCases
    \/ \E case_id \in CaseIds : CaseExists(case_id)
    \/ \E case_id \in CaseIds : GetCaseState(case_id)

Spec == Init /\ [][Next]_vars

(***************************************************************************)
(* The producer: webapp.home handling one submitted request.  It calls     *)
(* agent.run_agent, which builds the packet (executor.build_case_packet)   *)
(* and stores it with memory.append_case; home then stores the packet with *)
(* case_store.append_record unless it is a status_check.  Both writes go   *)
(* to data/cases.jsonl.                                                    *)
(***************************************************************************)
\* Last second the clock shows.
MaxClock == 2

\* Longest ledger at which a request is still taken.
MaxProduced == 4

\* datetime.now(), in seconds
Clock == 1..MaxClock

\* make_case_id: the id is the time of the call, to the second
make_case_id(now) == Str("CASE-" \o ToString(now))

\* datetime.now().astimezone().isoformat(timespec="seconds")
created_at_of(now) == IsoStr(now, TRUE, 0)

\* The case ids a request text may hold (extract_case_id): those
\* make_case_id gives, and one no case was given.
ReferencedIds == {make_case_id(t) : t \in 0..MaxClock}

\* A request: the case id extract_case_id finds in its text, or None, and
\* whether is_status_intent holds of the text.
Requests == [ref : ReferencedIds \cup {None}, status : BOOLEAN]

StatusCheckPacket(case_id, now) ==
    [event_type |-> Str("status_check"), case_id |-> case_id,
     created_at |-> created_at_of(now), summary |-> Str("sum"),
     case_type |-> Str("general"), priority |-> Str("low"),
     sla_days |-> Num(5), routing |-> Route]

FollowUpPacket(case_id, now) ==
    [event_type |-> Str("follow_up"), case_id |-> case_id,
     created_at |-> created_at_of(now), message |-> Str("text"),
     case_type |-> Str("general"),
     entities_update |-> Dict([a |-> None, b |-> Str("2")]),
     missing_info_after |-> List(<< >>), summary |-> Str("sum")]

CaseCreatedPacket(case_id, now) ==
    [event_type |-> Str("case_created"), case_id |-> case_id,
     created_at |-> created_at_of(now), summary |-> Str("sum"),
     request_text |-> Str("text"), case_type |-> Str("general"),
     priority |-> Str("low"), sla_days |-> Num(5),
     entities |-> Dict([a |-> Str("1"), b |-> None]),
     missing_info |-> List(<<Str("b")>>), routing |-> Route]

\* A producer that trusts the id a request names: it never asks
\* case_exists.
build_case_packet_unchecked(lines, request, now, later) ==
    IF request.ref # None /\ request.status
    THEN Ok(StatusCheckPacket(request.ref, now))
    ELSE IF request.ref # None
    THEN Ok(FollowUpPacket(request.ref, now))
    ELSE Ok(CaseCreatedPacket(make_case_id(later), now))

\* build_case_packet on the ledger as it is: now is the clock when the
\* packet is stamped, later the clock when make_case_id reads it.
build_case_packet(lines, request, now, later) ==
    LET exists == IF request.ref = None
                  THEN Ok(FALSE)
                  ELSE case_exists(lines, request.ref)
    IN  IF exists.tag = "raise"
        THEN exists
        ELSE IF exists.val /\ request.status
        THEN Ok(StatusCheckPacket(request.ref, now))
        ELSE IF exists.val
        THEN Ok(FollowUpPacket(request.ref, now))
        ELSE Ok(CaseCreatedPacket(make_case_id(later), now))

should_persist_event(case_packet) ==
    LET event_type == IF "event_type" \in DOMAIN case_packet
                      THEN case_packet["event_type"]
                      ELSE Str("case_created")
    IN  event_type \notin {Str("status_check")}

\* The file after home has handled a request that built case_packet:
\* run_agent's append_case, then home's append_record.
Persisted(lines, case_packet) ==
    LET stored == append_case(lines, case_packet)
    IN  IF should_persist_event(case_packet)
        THEN append_record(stored, case_packet)
        ELSE stored

Home(request) ==
    /\ Len(ledger) < MaxProduced
    /\ \E now \in Clock, later \in Clock :
          /\ now <= later
          /\ LET built == build_case_packet(ledger, request, now, later)
             IN  /\ ret' = Called("home", request, built)
                 /\ ledger' = IF built.tag = "raise"
                              THEN ledger
                              ELSE Persisted(ledger, built.val)

\* The program as deployed: no file at first, and every line written by
\* the producer.
ProducerInit ==
    /\ ledger = << >>
    /\ ret = NoCall

ProducerNext == \E request \in Requests : Home(request)

ProducerSpec == ProducerInit /\ [][ProducerNext]_vars

(***************************************************************************)
(* The resolver on its own: _event_type applied to records that differ in  *)
(* their event_type (absent, null, empty, blank, padded, a kind, another   *)
(* word, not a string) and in which of routing, entities, request_text and *)
(* summary they hold.  Each record stands in a ledger after a case_created *)
(* of its case, written with or without an offset in created_at.           *)
(***************************************************************************)
EventTypeValues ==
    {None, Str(""), Padded(""), Str("follow_up"), Padded("case_created"),
     Str("status_check"), Str("note"), Num(5)}

SignatureKeys == {"routing", "entities", "request_text", "summary"}

FieldValue(k) ==
    CASE k = "case_id" -> CaseA
      [] k = "created_at" -> IsoStr(3, FALSE, 0)
      [] k = "routing" -> Route
      [] k = "entities" -> Dict([a |-> Str("4")])
      [] OTHER -> Str("text")

\* A record of CASE-A at naive time 3 that holds the keys given.
RecordWith(keys) == [k \in keys \cup {"case_id", "created_at"} |-> FieldValue(k)]

WithEventType(rec, et) ==
    [k \in DOMAIN rec \cup {"event_type"} |->
        IF k = "event_type" THEN et ELSE rec[k]]

ResolverInputs ==
    LET bare == {RecordWith(keys) : keys \in SUBSET SignatureKeys}
    IN  bare \cup {WithEventType(rec, et) : rec \in bare, et \in EventTypeValues}

ResolverInit ==
    /\ ledger \in {<<json_dumps(first), json_dumps(rec)>> :
                      first \in {Created1, Created2}, rec \in ResolverInputs}
    /\ ret = NoCall

\* _event_type applied to the record of line i
EventType(i) ==
    /\ IsObject(ledger[i])
    /\ ret' = Called("_event_type", Dict(RecordAt(ledger, i)),
                     Ok(Str(_event_type(RecordAt(ledger, i)))))
    /\ ledger' = ledger

ResolverNext ==
    \/ \E i \in 1..Len(ledger) : EventType(i)
    \/ \E case_id \in CaseIds : GetCaseState(case_id)

ResolverSpec == ResolverInit /\ [][ResolverNext]_vars

(***************************************************************************)
(* The ledger under writes that are cut short (the process is killed or    *)
(* the disk fills during f.write): a part of the text is in the file and   *)
(* its "\n" is not.  The next write appends to that line.                  *)
(***************************************************************************)
\* What a cut-short write of a record can leave: a part of its text, all
\* of its text, or a part that ends inside a multi-byte character (both
\* writers pass ensure_ascii=False).
CutShort(record) ==
    {Torn(TextLine), Torn(json_dumps(record)), Torn(BadUtf8Line)}

TornPackets == {Created1, FollowUp1, FollowUpLate, CreatedB}

\* append_record or append_case of a record, interrupted in f.write.
AppendCutShort(record) ==
    /\ Len(ledger) < MaxLedger
    /\ \E piece \in CutShort(record) : ledger' = WriteTorn(ledger, piece)
    /\ ret' = Called("append_record", Dict(record), Raise("OSError"))

TornInit ==
    /\ ledger \in {<< >>, <<json_dumps(Created1)>>}
    /\ ret = NoCall

TornNext ==
    \/ \E record \in TornPackets : AppendCutShort(record)
    \/ \E record \in TornPackets : AppendRecord(record)
    \/ \E case_packet \in TornPackets : AppendCase(case_packet)
    \/ LoadRecords
    \/ \E case_id \in CaseIds : GetCaseState(case_id)

TornSpec == TornInit /\ [][TornNext]_vars

(***************************************************************************)
(* Vocabulary of the specification, read off the ledger itself: the        *)
(* records of a case, their resolved kind, and timestamp order (a missing  *)
(* or unparsable created_at is earliest; records of one time keep their    *)
(* append order).                                                          *)
(***************************************************************************)
CaseIndexes(lines, case_id) ==
    {i \in 1..Len(lines) :
        IsObject(lines[i]) /\ Get(RecordAt(lines, i), "case_id") = case_id}

KindAt(lines, i) == _event_type(RecordAt(lines, i))

HasCreated(lines, case_id) ==
    \E i \in CaseIndexes(lines, case_id) : KindAt(lines, i) = "case_created"

HasTime(rec) ==
    Get(rec, "created_at").ty = "str" /\ "iso" \in DOMAIN Get(rec, "created_at")

TimeOf(rec) == rec["created_at"].iso.t - rec["created_at"].iso.off

\* a is strictly earlier than b in timestamp order
Earlier(a, b) ==
    \/ ~HasTime(a) /\ HasTime(b)
    \/ /\ HasTime(a) /\ HasTime(b)
       /\ a["created_at"].iso.tz = b["created_at"].iso.tz
       /\ TimeOf(a) < TimeOf(b)

SameTime(a, b) == ~Earlier(a, b) /\ ~Earlier(b, a)

\* record i is folded before record j
FoldedBefore(lines, i, j) ==
    \/ Earlier(RecordAt(lines, i), RecordAt(lines, j))
    \/ SameTime(RecordAt(lines, i), RecordAt(lines, j)) /\ i < j

RemoveAt(lines, i) == SubSeq(lines, 1, i - 1) \o SubSeq(lines, i + 1, Len(lines))

\* Every line of the file is a JSON object.
WellFormed(lines) == \A i \in 1..Len(lines) : IsObject(lines[i])

Returned(op) == ret.op = op /\ ret.out.tag = "ok"

\* get_case_state was the last call and returned a state
Projected == Returned("get_case_state") /\ ret.out.val.ty = "dict"

ProjectedState == ret.out.val.d

\* The last case_created of the case projected, in fold order.
LastCreated ==
    CHOOSE c \in CaseIndexes(ledger, ret.arg) :
        /\ KindAt(ledger, c) = "case_created"
        /\ \A j \in CaseIndexes(ledger, ret.arg) \ {c} :
              KindAt(ledger, j) = "case_created" => FoldedBefore(ledger, j, c)

\* The follow_ups folded after it.
AppliedFollowUps ==
    {i \in CaseIndexes(ledger, ret.arg) :
        KindAt(ledger, i) = "follow_up" /\ FoldedBefore(ledger, LastCreated, i)}

\* The last element of a non-empty set of records, in fold order.
LastOf(S) == CHOOSE m \in S : \A j \in S \ {m} : FoldedBefore(ledger, j, m)

(***************************************************************************)
(* C1.  case_exists(case_id) returns true exactly when the ledger holds a  *)
(* record of that case whose resolved kind is case_created.                *)
(***************************************************************************)
C1_ExistsIffCreated ==
    ret.op = "case_exists" /\ WellFormed(ledger) =>
        ((ret.out = Ok(TRUE)) <=> HasCreated(ledger, ret.arg))

\* What holds of the code: the equivalence, whenever the call returns.
C1_WhenReturns ==
    Returned("case_exists") => (ret.out.val <=> HasCreated(ledger, ret.arg))

(***************************************************************************)
(* C2.  get_case_state returns None when no record of the case resolves to *)
(* case_created (so for a history of follow_up and status_check only), and *)
(* a state otherwise.                                                      *)
(***************************************************************************)
C2_AbsentIffNoCreated ==
    ret.op = "get_case_state" /\ WellFormed(ledger) =>
        IF HasCreated(ledger, ret.arg)
        THEN ret.out.tag = "ok" /\ ret.out.val.ty = "dict"
        ELSE ret.out = Ok(None)

C2_WhenReturns ==
    Returned("get_case_state") =>
        (ret.out.val = None <=> ~HasCreated(ledger, ret.arg))

(***************************************************************************)
(* C3.  In a projected state every entity key holds the value of the       *)
(* latest non-null assignment to it, among the entity map of the last      *)
(* case_created and the update maps of the follow_ups folded after it; a   *)
(* key nothing assigns a non-null value is one the case_created lists with *)
(* null.  So a null in an update neither overwrites a value nor adds a     *)
(* key.                                                                    *)
(***************************************************************************)
\* The map of record i that assigns entities: entities of a case_created,
\* entities_update of a follow_up.
AssignedBy(i) ==
    LET rec == RecordAt(ledger, i)
        v == IF i = LastCreated
             THEN Get(rec, "entities")
             ELSE Get(rec, "entities_update")
    IN  IF v.ty = "dict" THEN v.d ELSE EmptyDict

\* The records that assign key k a non-null value.
Assigners(k) ==
    {i \in AppliedFollowUps \cup {LastCreated} :
        k \in DOMAIN AssignedBy(i) /\ AssignedBy(i)[k] # None}

AssignedKeys == UNION {DOMAIN AssignedBy(i) : i \in AppliedFollowUps \cup {LastCreated}}

C3_NonNullWins ==
    Projected =>
        LET entities == ProjectedState["entities"].d
        IN  /\ \A k \in AssignedKeys :
                  Assigners(k) # {} =>
                      /\ k \in DOMAIN entities
                      /\ entities[k] = AssignedBy(LastOf(Assigners(k)))[k]
            /\ \A k \in DOMAIN entities :
                  Assigners(k) = {} =>
                      /\ k \in DOMAIN AssignedBy(LastCreated)
                      /\ entities[k] = None

\* The example of the specification: {a:"1", b:null} then
\* {a:null, b:"2", c:"3"} gives {a:"1", b:"2", c:"3"}.
C3_Witness ==
    /\ Projected
    /\ ledger = <<json_dumps(Created1), json_dumps(FollowUp1)>>
    /\ ProjectedState["entities"].d = [a |-> Str("1"), b |-> Str("2"), c |-> Str("3")]

(***************************************************************************)
(* C4.  The projected missing-field list is the replacement list of the    *)
(* latest applied follow_up that carries one (empty when that list is      *)
(* empty), or the list of the last case_created when none carries one.     *)
(***************************************************************************)
Replacers == {i \in AppliedFollowUps : "missing_info_after" \in DOMAIN RecordAt(ledger, i)}

\* A list field as a list: null and absent count as the empty list.
ListField(rec, k) == IF Get(rec, k).ty = "list" THEN Get(rec, k) ELSE List(<< >>)

C4_MissingReplaced ==
    Projected =>
        ProjectedState["missing_info"] =
            IF Replacers # {}
            THEN ListField(RecordAt(ledger, LastOf(Replacers)), "missing_info_after")
            ELSE ListField(RecordAt(ledger, LastCreated), "missing_info")

\* missing x,y replaced by y; and a later follow_up without a list leaves it.
C4_Witness ==
    /\ Projected
    /\ \E i \in AppliedFollowUps \ Replacers :
          \E j \in Replacers : FoldedBefore(ledger, j, i)
    /\ ProjectedState["missing_info"] = List(<<Str("y")>>)

(***************************************************************************)
(* C5.  A follow_up strictly earlier, in timestamp order, than every       *)
(* case_created of its case has no effect: get_case_state gives what it    *)
(* gives on the ledger without that follow_up.                             *)
(***************************************************************************)
\* record i is a follow_up of the case that precedes its first case_created
EarlyFollowUp(lines, case_id, i) ==
    /\ KindAt(lines, i) = "follow_up"
    /\ HasCreated(lines, case_id)
    /\ \A j \in CaseIndexes(lines, case_id) :
          KindAt(lines, j) = "case_created" =>
              Earlier(RecordAt(lines, i), RecordAt(lines, j))

C5_EarlyFollowUpDiscarded ==
    ret.op = "get_case_state" /\ WellFormed(ledger) =>
        \A i \in CaseIndexes(ledger, ret.arg) :
            EarlyFollowUp(ledger, ret.arg, i) =>
                get_case_state(RemoveAt(ledger, i), ret.arg) = ret.out

\* What holds of the code: the same, whenever the call returns.
C5_WhenReturns ==
    Returned("get_case_state") =>
        \A i \in CaseIndexes(ledger, ret.arg) :
            EarlyFollowUp(ledger, ret.arg, i) =>
                get_case_state(RemoveAt(ledger, i), ret.arg) = ret.out

(***************************************************************************)
(* C6.  status_check records are inert: get_case_state gives the same      *)
(* entities, missing-field list, last_updated_at and last_event_type with  *)
(* and without any status_check record of the case.                        *)
(***************************************************************************)
\* What C6 speaks of in an outcome of get_case_state.
MergedView(out) ==
    IF out.tag = "ok" /\ out.val.ty = "dict"
    THEN Ok([entities |-> out.val.d["entities"],
             missing_info |-> out.val.d["missing_info"],
             last_updated_at |-> out.val.d["last_updated_at"],
             last_event_type |-> out.val.d["last_event_type"]])
    ELSE out

C6_StatusCheckInert ==
    ret.op = "get_case_state" /\ WellFormed(ledger) =>
        \A i \in CaseIndexes(ledger, ret.arg) :
            KindAt(ledger, i) = "status_check" =>
                MergedView(get_case_state(RemoveAt(ledger, i), ret.arg))
                    = MergedView(ret.out)

C6_WhenReturns ==
    Returned("get_case_state") =>
        \A i \in CaseIndexes(ledger, ret.arg) :
            KindAt(ledger, i) = "status_check" =>
                MergedView(get_case_state(RemoveAt(ledger, i), ret.arg))
                    = MergedView(ret.out)

(***************************************************************************)
(* C7.  Projection does not depend on the physical order of the lines:     *)
(* every reordering of the ledger gives every case the same outcome.       *)
(***************************************************************************)
\* The orderings of n lines, for every length of ledger.
AllOrderings ==
    [n \in 0..MaxLedger |->
        {p \in [1..n -> 1..n] : \A i, j \in 1..n : p[i] = p[j] => i = j}]

Orderings(n) == AllOrderings[n]

Reordered(lines, p) == [i \in 1..Len(lines) |-> lines[p[i]]]

\* The claim as written.
C7_AnyOrder ==
    ret.op = "get_case_state" =>
        \A p \in Orderings(Len(ledger)) :
            get_case_state(Reordered(ledger, p), ret.arg) = ret.out

\* a and b have the same time: neither has one, or both have the same one.
Tied(a, b) ==
    \/ ~HasTime(a) /\ ~HasTime(b)
    \/ /\ HasTime(a) /\ HasTime(b)
       /\ a["created_at"].iso.tz = b["created_at"].iso.tz
       /\ TimeOf(a) = TimeOf(b)

\* No two records of the case have the same time.
DistinctTimes(lines, case_id) ==
    \A i, j \in CaseIndexes(lines, case_id) :
        i # j => ~Tied(RecordAt(lines, i), RecordAt(lines, j))

\* C7 as amended: the same outcome under every reordering, provided the
\* records of the case have pairwise different times.
C7_AnyOrderOfDistinctTimes ==
    ret.op = "get_case_state" /\ DistinctTimes(ledger, ret.arg) =>
        \A p \in Orderings(Len(ledger)) :
            get_case_state(Reordered(ledger, p), ret.arg) = ret.out

\* A follow_up appended before its case_created, and later in time, is
\* applied after creation.
C7_Witness ==
    /\ Projected
    /\ ledger = <<json_dumps(FollowUp1), json_dumps(Created1)>>
    /\ ProjectedState["last_event_type"] = Str("follow_up")
    /\ ProjectedState["entities"].d = [a |-> Str("1"), b |-> Str("2"), c |-> Str("3")]

(***************************************************************************)
(* C8.  Sorting never raises: on a ledger of JSON objects, whatever their  *)
(* created_at values, case_exists and get_case_state return, and records   *)
(* with a missing or unparsable created_at are folded before those with a  *)
(* valid one.                                                              *)
(***************************************************************************)
UndatedFirst(recs) ==
    \A i, j \in 1..Len(recs) : HasTime(recs[i]) /\ ~HasTime(recs[j]) => j < i

C8_SortNeverRaises ==
    ret.op \in {"case_exists", "get_case_state"} /\ WellFormed(ledger) =>
        /\ ret.out.tag = "ok"
        /\ _records_for_case(ledger, ret.arg).tag = "ok"
        /\ UndatedFirst(_records_for_case(ledger, ret.arg).val)

\* What holds of the code: the order, whenever the sort returns.
C8_WhenReturns ==
    \A c \in CaseIds :
        _records_for_case(ledger, c).tag = "ok" =>
            UndatedFirst(_records_for_case(ledger, c).val)

(***************************************************************************)
(* C9.  Lines that are not valid JSON change no projection:                *)
(* get_case_state gives what it gives on the ledger without them.          *)
(***************************************************************************)
IsJson(line) == line.kind = "json"

C9_InvalidLinesIgnored ==
    ret.op = "get_case_state" =>
        get_case_state(SelectSeq(ledger, IsJson), ret.arg) = ret.out

\* What holds of the code: the same for invalid lines that decode as text.
NotGarbage(line) == line.kind # "text"

C9_GarbageTextIgnored ==
    ret.op = "get_case_state" =>
        get_case_state(SelectSeq(ledger, NotGarbage), ret.arg) = ret.out

(***************************************************************************)
(* C10.  A line that fails to decode never aborts the scan: load_records   *)
(* returns every line that parses, and load_cases every line that parses   *)
(* to an object, in order, whatever the other lines are (the file being    *)
(* one that opens).                                                        *)
(***************************************************************************)
\* The values of the lines that hold JSON, in file order.
ParsedLines(lines) ==
    LET js == SelectSeq(lines, IsJson)
    IN  [i \in 1..Len(js) |-> js[i].val]

ParsedObjects(lines) ==
    LET js == SelectSeq(lines, IsObject)
    IN  [i \in 1..Len(js) |-> js[i].val]

C10_ScanNeverAborts ==
    ret.io = "ok" =>
        /\ ret.op = "load_records" => ret.out = Ok(ParsedLines(ledger))
        /\ ret.op = "load_cases" => ret.out = Ok(ParsedObjects(ledger))

\* What holds of the code: the same on files that decode as UTF-8.
C10_WhenDecodable ==
    ~DecodeFails(ledger) => C10_ScanNeverAborts

(***************************************************************************)
(* C11.  An append whose payload has no case_id writes nothing: the ledger *)
(* after the call is the ledger before it, for append_record and for       *)
(* append_case.                                                            *)
(***************************************************************************)
HasCaseId(packet) == "case_id" \in DOMAIN packet

C11_NoCaseIdRejected ==
    [][\A p \in Packets :
          ~HasCaseId(p) /\ (AppendRecord(p) \/ AppendCase(p)) => ledger' = ledger]_vars

\* What holds of the code: append_case writes nothing for such a payload.
C11_AppendCaseRejects ==
    [][\A p \in Packets : ~HasCaseId(p) /\ AppendCase(p) => ledger' = ledger]_vars

(***************************************************************************)
(* C12.  Handling one request that creates a case or follows one up adds   *)
(* exactly one record to the ledger.                                       *)
(***************************************************************************)
\* The step is home handling request q, and it built a packet of kind k.
HandledAs(q, k) ==
    /\ ret'.op = "home"
    /\ ret'.arg = q
    /\ ret'.out.tag = "ok"
    /\ _event_type(ret'.out.val) = k
    /\ Home(q)

C12_OneRecordPerRequest ==
    [][\A q \in Requests :
          HandledAs(q, "case_created") \/ HandledAs(q, "follow_up") =>
              Len(ledger') = Len(ledger) + 1]_vars

\* What holds of the code: such a request adds its record twice.
C12_TwoCopies ==
    [][\A q \in Requests :
          HandledAs(q, "case_created") \/ HandledAs(q, "follow_up") =>
              ledger' = ledger \o <<json_dumps(ret'.out.val),
                                    json_dumps(ret'.out.val)>>]_vars

(***************************************************************************)
(* C13.  Handling a request the producer classifies as status_check leaves *)
(* the ledger unchanged.                                                   *)
(***************************************************************************)
C13_StatusCheckNotAppended ==
    [][\A q \in Requests : HandledAs(q, "status_check") => ledger' = ledger]_vars

\* What holds of the code: the status_check is appended once, by run_agent.
C13_OneCopy ==
    [][\A q \in Requests :
          HandledAs(q, "status_check") =>
              ledger' = Append(ledger, json_dumps(ret'.out.val))]_vars

(***************************************************************************)
(* C14.  case_exists is monotonic over the history of a ledger of JSON     *)
(* objects: false for an id with no record, true once a case_created of    *)
(* the id has been appended, and still true after every later append.      *)
(***************************************************************************)
\* The step appends packet p to the file.
Appended(p) == AppendRecord(p) \/ (AppendCase(p) /\ AcceptsPacket(p))

\* The step appends a case_created of case c.
CreatedAppended(c) ==
    \E p \in Packets :
        Appended(p) /\ Get(p, "case_id") = c /\ _event_type(p) = "case_created"

C14_ExistsMonotonic ==
    [][WellFormed(ledger') =>
          \A c \in CaseIds :
              /\ CaseIndexes(ledger', c) = {} => case_exists(ledger', c) = Ok(FALSE)
              /\ CreatedAppended(c) => case_exists(ledger', c) = Ok(TRUE)
              /\ case_exists(ledger, c) = Ok(TRUE) =>
                     case_exists(ledger', c) = Ok(TRUE)]_vars

\* What holds of the code: the same, whenever the later call returns.
C14_WhenReturns ==
    [][\A c \in CaseIds :
          case_exists(ledger', c).tag = "ok" =>
              /\ CaseIndexes(ledger', c) = {} => case_exists(ledger', c) = Ok(FALSE)
              /\ CreatedAppended(c) => case_exists(ledger', c) = Ok(TRUE)
              /\ case_exists(ledger, c) = Ok(TRUE) =>
                     case_exists(ledger', c) = Ok(TRUE)]_vars

(***************************************************************************)
(* C15.  The ledger is append-only: every step leaves the earlier content  *)
(* as a prefix of the new content, and a step that is a read               *)
(* (load_records, load_cases, case_exists, get_case_state) leaves the      *)
(* ledger as it was.  Step by step this makes the content of every earlier *)
(* state a prefix of the current one.                                      *)
(***************************************************************************)
IsPrefix(a, b) == Len(a) <= Len(b) /\ SubSeq(b, 1, Len(a)) = a

ReadOps == {"load_records", "load_cases", "case_exists", "get_case_state"}

C15_AppendOnly ==
    [][/\ IsPrefix(ledger, ledger')
       /\ ret'.op \in ReadOps => ledger' = ledger]_vars

\* An append has extended a ledger that already held lines, up to the
\* longest length explored.
C15_Witness ==
    /\ ret.op \in {"append_record", "append_case"}
    /\ Len(ledger) = MaxLedger
    /\ ledger[Len(ledger)] = json_dumps(ret.arg.d)

NonEmptyEventType(rec) ==
    /\ "event_type" \in DOMAIN rec
    /\ rec["event_type"].ty = "str"
    /\ rec["event_type"].s # ""

HasSignature(rec) ==
    /\ {"routing", "entities"} \subseteq DOMAIN rec
    /\ DOMAIN rec \cap {"request_text", "summary"} # {}

ResolvedKind(rec) ==
    IF NonEmptyEventType(rec)
    THEN rec["event_type"].s
    ELSE IF HasSignature(rec) THEN "case_created" ELSE "unknown"

\* Removing any record of the case that has no event_type and not the whole
\* signature leaves the outcome of the call as it is.
UnknownInert ==
    \A i \in CaseIndexes(ledger, ret.arg) :
        "event_type" \notin DOMAIN RecordAt(ledger, i)
        /\ ~HasSignature(RecordAt(ledger, i)) =>
            /\ KindAt(ledger, i) = "unknown"
            /\ get_case_state(RemoveAt(ledger, i), ret.arg) = ret.out

C17_Resolver ==
    /\ ret.op = "_event_type" => ret.out = Ok(Str(ResolvedKind(ret.arg.d)))
    /\ ret.op = "get_case_state" => UnknownInert

\* What holds of the code: the rule of the resolver, on every record.
C17_ResolverRule ==
    ret.op = "_event_type" => ret.out = Ok(Str(ResolvedKind(ret.arg.d)))

\* What holds of the code: an unknown record is inert whenever the call
\* returns.
C17_InertWhenReturns == Returned("get_case_state") => UnknownInert

(***************************************************************************)
(* C18.  A read tells "no ledger yet" from "unreadable": load_records and  *)
(* load_cases return the empty list when the file does not exist, and      *)
(* raise when the file exists and cannot be opened.                        *)
(***************************************************************************)
C18_UnreadableSurfaced ==
    ret.op \in {"load_records", "load_cases"} =>
        /\ ~Exists(ledger) => ret.out = Ok(<< >>)
        /\ Exists(ledger) /\ ret.io = "denied" => ret.out.tag = "raise"

\* What holds of the code: the same, of load_records alone.
C18_LoadRecordsSurfaces ==
    ret.op = "load_records" =>
        /\ ~Exists(ledger) => ret.out = Ok(<< >>)
        /\ Exists(ledger) /\ ret.io = "denied" => ret.out.tag = "raise"

\* What holds of the code: load_cases reports an unreadable file as empty.
C18_LoadCasesHidesFailure ==
    ret.op = "load_cases" /\ ret.io = "denied" => ret.out = Ok(<< >>)

(***************************************************************************)
(* C19.  When the ledger holds a second case_created of a case,            *)
(* get_case_state returns a state, and that state comes from the latest    *)
(* case_created alone and the follow_ups folded after it: its case_type,   *)
(* created_at, priority, sla_days and routing are those of that record,    *)
(* and the whole state is the one projected from the ledger without every  *)
(* record of the case folded before that record.                           *)
(***************************************************************************)
Creations(lines, case_id) ==
    {i \in CaseIndexes(lines, case_id) : KindAt(lines, i) = "case_created"}

\* The lines at the indexes in S, in file order.
KeepIndexes(lines, S) ==
    LET F[n \in 0..Len(lines)] ==
            IF n = 0
            THEN << >>
            ELSE IF n \in S THEN Append(F[n - 1], lines[n]) ELSE F[n - 1]
    IN  F[Len(lines)]

\* The ledger without the records of the case projected that are folded
\* before its last case_created.
SinceLastCreated ==
    KeepIndexes(ledger,
        {i \in 1..Len(ledger) :
            ~(/\ i \in CaseIndexes(ledger, ret.arg)
              /\ i # LastCreated
              /\ FoldedBefore(ledger, i, LastCreated))})

FromLastCreated ==
    /\ \A k \in {"case_type", "created_at", "priority", "sla_days", "routing"} :
          ProjectedState[k] = Get(RecordAt(ledger, LastCreated), k)
    /\ ret.out = get_case_state(SinceLastCreated, ret.arg)

C19_SecondCreatedReinitializes ==
    /\ ret.op = "get_case_state"
    /\ WellFormed(ledger)
    /\ Cardinality(Creations(ledger, ret.arg)) >= 2
    => Projected /\ FromLastCreated

\* What holds of the code: the same, whenever the call returns.
C19_WhenReturns ==
    Projected /\ Cardinality(Creations(ledger, ret.arg)) >= 2 => FromLastCreated

\* A state in which a follow_up between two case_created records had set an
\* entity that the second case_created dropped.
C19_Reinitialized ==
    /\ Projected
    /\ ledger = <<json_dumps(Legacy), json_dumps(FollowUpUndated), json_dumps(Created1)>>
    /\ ProjectedState["entities"].d = [a |-> Str("1"), b |-> None]

(***************************************************************************)
(* C20.  In every projected state last_updated_at and last_event_type are  *)
(* the created_at and the resolved kind of the last record the fold        *)
(* applied: the last, in fold order, among the case_created records of the *)
(* case and its follow_ups folded after a case_created.  Records the fold  *)
(* skips (status_check, unknown, follow_up before creation) set neither.   *)
(***************************************************************************)
\* The records of the case projected that the fold applies.
Applied ==
    Creations(ledger, ret.arg) \cup
        {i \in CaseIndexes(ledger, ret.arg) :
            /\ KindAt(ledger, i) = "follow_up"
            /\ \E c \in Creations(ledger, ret.arg) : FoldedBefore(ledger, c, i)}

LastApplied == LastOf(Applied)

C20_LastUpdatedFromLastApplied ==
    Projected =>
        /\ ProjectedState["last_updated_at"]
               = Get(RecordAt(ledger, LastApplied), "created_at")
        /\ ProjectedState["last_event_type"] = Str(KindAt(ledger, LastApplied))

\* A follow_up was applied after creation, and a status_check folded after
\* it was skipped.
C20_Witness ==
    /\ Projected
    /\ KindAt(ledger, LastApplied) = "follow_up"
    /\ \E i \in CaseIndexes(ledger, ret.arg) :
          KindAt(ledger, i) = "status_check" /\ FoldedBefore(ledger, LastApplied, i)
    /\ ProjectedState["last_event_type"] = Str("follow_up")
    /\ ProjectedState["last_updated_at"] = IsoStr(3, FALSE, 0)

(***************************************************************************)
(* C21.  The producer chooses the kind of a packet from the existence      *)
(* check at the time of the request: a follow_up or status_check carries   *)
(* the id the request names, and only when the ledger holds a case_created *)
(* of that id; every other request (one that names no id, or an id without *)
(* a case_created) gets a case_created under an id make_case_id generated. *)
(* Hence in a ledger only the producer wrote, every follow_up and          *)
(* status_check line comes after a case_created line of the same id.       *)
(***************************************************************************)
\* The ids make_case_id can give.
GeneratedIds == {make_case_id(t) : t \in Clock}

UpdateKinds == {"follow_up", "status_check"}

\* Line i is a record of one of the kinds given.
IsOfKind(lines, i, kinds) == IsObject(lines[i]) /\ KindAt(lines, i) \in kinds

PrecededByCreated(lines) ==
    \A i \in 1..Len(lines) :
        IsOfKind(lines, i, UpdateKinds) =>
            \E j \in 1..(i - 1) :
                /\ IsOfKind(lines, j, {"case_created"})
                /\ Get(RecordAt(lines, j), "case_id") = Get(RecordAt(lines, i), "case_id")

C21_KindFromExistence ==
    [][/\ ret'.op = "home" /\ ret'.out.tag = "ok" =>
             LET q == ret'.arg
                 p == ret'.out.val
                 known == q.ref # None /\ HasCreated(ledger, q.ref)
             IN  /\ known => _event_type(p) \in UpdateKinds
                             /\ Get(p, "case_id") = q.ref
                 /\ ~known => _event_type(p) = "case_created"
                              /\ Get(p, "case_id") \in GeneratedIds
       /\ PrecededByCreated(ledger')]_vars

\* A request that names an id without a case_created has just been given a
\* new case, in a ledger that already holds a status_check or follow_up.
C21_Witness ==
    /\ Returned("home")
    /\ ret.arg.ref # None
    /\ _event_type(ret.out.val) = "case_created"
    /\ Get(ret.out.val, "case_id") # ret.arg.ref
    /\ \E i \in 1..Len(ledger) : IsOfKind(ledger, i, UpdateKinds)

(***************************************************************************)
(* C22.  Two new-case requests never get the same case id: a request that  *)
(* is given a case_created gets an id for which the ledger holds no        *)
(* case_created yet, also when an earlier request was handled in the same  *)
(* second.                                                                 *)
(***************************************************************************)
C22_NewCaseIdIsFresh ==
    [][/\ ret'.op = "home"
       /\ ret'.out.tag = "ok"
       /\ _event_type(ret'.out.val) = "case_created"
       => ~HasCreated(ledger, Get(ret'.out.val, "case_id"))]_vars

\* What holds of the code: the id is the second at which make_case_id was
\* called, and nothing else.
C22_IdIsTheSecond ==
    [][/\ ret'.op = "home"
       /\ ret'.out.tag = "ok"
       /\ _event_type(ret'.out.val) = "case_created"
       => \E t \in Clock :
             /\ Get(ret'.out.val, "case_id") = Str("CASE-" \o ToString(t))
             /\ ret'.out.val["created_at"].iso.t <= t]_vars

(***************************************************************************)
(* C23.  A partial trailing line is treated as absent also by what comes   *)
(* later: when an append completes on a file that ends in a partial line   *)
(* without terminator, load_records and get_case_state give what they give *)
(* on the file without the partial line and with the new record, so the    *)
(* new record is returned and folded (the file being one that decodes).    *)
(***************************************************************************)
\* The step is an append that returned, and wrote its record.
AppendCompleted ==
    /\ ret'.op \in {"append_record", "append_case"}
    /\ ret'.out.tag = "ok"
    /\ ret'.op = "append_case" => AcceptsPacket(ret'.arg.d)

\* The file without the line a cut-short write left.
Untorn(lines) ==
    IF EndsTorn(lines) THEN SubSeq(lines, 1, Len(lines) - 1) ELSE lines

\* The file as it should read after the step: the whole lines, then the
\* record appended.
AsIfAbsent == Append(Untorn(ledger), json_dumps(ret'.arg.d))

C23_LaterAppendsRead ==
    [][AppendCompleted /\ EndsTorn(ledger) /\ ~DecodeFails(ledger') =>
          /\ load_records(ledger') = load_records(AsIfAbsent)
          /\ \A c \in CaseIds :
                get_case_state(ledger', c) = get_case_state(AsIfAbsent, c)]_vars

\* What holds of the code: the same for an append to a file that ends with
\* a terminator.
C23_AfterWholeLine ==
    [][AppendCompleted /\ ~EndsTorn(ledger) /\ ~DecodeFails(ledger') =>
          /\ load_records(ledger') = load_records(AsIfAbsent)
          /\ \A c \in CaseIds :
                get_case_state(ledger', c) = get_case_state(AsIfAbsent, c)]_vars

\* What holds of the code: a reader skips a partial trailing line that is
\* no JSON document.
C23_ReaderSkipsPartialLine ==
    EndsTorn(ledger) /\ ledger[Len(ledger)].kind = "text" =>
        /\ ret.op = "load_records" /\ ret.io = "ok" =>
               ret.out = load_records(Untorn(ledger))
        /\ ret.op = "get_case_state" =>
               ret.out = get_case_state(Untorn(ledger), ret.arg)

(***************************************************************************)
(* C24.  A line that holds a JSON document that is no object never blocks  *)
(* reading: case_exists and get_case_state return, and give what they give *)
(* on the ledger without such lines (the rest of the ledger being one on   *)
(* which the call returns).                                                *)
(***************************************************************************)
IsNonObject(line) == line.kind = "json" /\ line.val.ty # "dict"

HasNonObject(lines) == \E i \in 1..Len(lines) : IsNonObject(lines[i])

WithoutNonObjects(lines) == SelectSeq(lines, LAMBDA l : ~IsNonObject(l))

\* What the last call gives on the ledger without the lines that are no
\* objects.
OnObjectsOnly ==
    IF ret.op = "case_exists"
    THEN case_exists(WithoutNonObjects(ledger), ret.arg)
    ELSE get_case_state(WithoutNonObjects(ledger), ret.arg)

C24_NonObjectLineIgnored ==
    /\ ret.op \in {"case_exists", "get_case_state"}
    /\ HasNonObject(ledger)
    /\ OnObjectsOnly.tag = "ok"
    => ret.out = OnObjectsOnly

\* What holds of the code: load_cases leaves such lines out.
C24_LoadCasesSkips ==
    ret.op = "load_cases" /\ ret.io = "ok" /\ ~DecodeFails(ledger) =>
        ret.out = load_cases(WithoutNonObjects(ledger))

====
